---- MODULE Spec2Model ----
(***************************************************************************)
(* A model of the iec104 package: the ASDU header codec (ASDU.Data and     *)
(* ASDU.Parse), the listener (Server.Serve / Server.serve), the client     *)
(* connection hooks of NewClientOption (STARTDT / STOPDT handshake), the   *)
(* client options (NewClientOption and its setters) and the link session   *)
(* (sequence counters and send window).                                    *)
(*                                                                         *)
(* The parts do not share state.  Each part has its own specification      *)
(* (SpecCodec, SpecServer, SpecLink, SpecOption, SpecFlow); in a           *)
(* specification the other parts are switched off and none of their        *)
(* actions is enabled.                                                     *)
(***************************************************************************)
EXTENDS Integers, Sequences, FiniteSets, TLC

VARIABLES
    \* ---- codec ----
    stage,      \* position of the codec run: off/new/encoded/decoded/reencoded
    src,        \* the ASDU on which Data is called
    wire,       \* the bytes handed to Parse (output of Data, or raw input)
    fromData,   \* TRUE when wire was produced by Data(src)
    dataRes,    \* what the call of Data returned: "none" or "bytes"
    dst0,       \* the receiver of Parse before the call
    dst,        \* the receiver of Parse after the call
    perr,       \* result of Parse: "none", "nil", "hdr" (header error), "panic"
    wire2,      \* Data(dst) after a successful Parse of Data(src)
    \* ---- listener ----
    srvPc,      \* Serve: off/start/accept/returned/panicked
    addrOk,     \* whether url.Parse accepts the normalized s.address
    lastAccept, \* result of the latest Accept: "none", "ok", "err"
    heap,       \* number of objects allocated by the serve goroutines
    conns,      \* one record per accepted connection (goroutine s.serve)
    \* ---- client link ----
    linkState,  \* off/Disconnected/Connecting/StoppedDT/StartedDT
    hook,       \* the running hook and its position: none, c_log, c_send,
                \* c_wait, c_done (on-connect), d_log, d_send, d_wait, d_done
    recvChan,   \* confirmations held by c.recvChan
    sendQ,      \* frames queued by sendUFrame for the write loop
    toPeer,     \* frames written to the stream, not yet read by the peer
    fromPeer,   \* frames written by the peer, not yet read by the read loop
    ctxDone,    \* the context of the two loops is cancelled
    fatal,      \* a read/write error has ended the connection
    timedOut,   \* the connect timeout has elapsed during the handshake
    unsolicited,\* confirmations the peer has sent without a request
    reconnects, \* times the reconnect policy has been invoked
    connectRes, \* what Connect returned: "none", "ok", "ConnectTimeout"
    onConnectHandler, \* the option's on-connect handler: "default", "custom"
    startSent,  \* STARTDT-act frames the on-connect hook has sent on this connection
    conRead,    \* confirmations the read loop has received on this connection
    iSent,      \* I-frames the application has sent on this connection
    \* ---- client options ----
    optPc,      \* off / new (before NewClientOption) / built / failed
    argServer,  \* the server argument of NewClientOption, a string
    argTimeout, \* the connecttimeout argument, in seconds
    urlOk,      \* whether url.Parse accepts the normalized address
    server,     \* the local server after the two prefix steps
    optErr,     \* the error NewClientOption returned: "none", "nil", "err"
    option,     \* the *ClientOption it returned: Nil or the struct
    lastCall,   \* the latest setter call: its name and argument
    prev,       \* the struct before the latest setter call
    calls,      \* setter calls made so far
    \* ---- link session ----
    lsmState,   \* off / StoppedDT / StartedDT / Disconnected
    sendSeq,    \* sequence number of the next I-frame sent
    ackSeq,     \* the peer has acknowledged the frames before this number
    recvSeq,    \* sequence number of the next I-frame expected
    unackedCount, \* I-frames sent and not yet acknowledged
    pending,    \* a send is blocked on the full window
    onWire,     \* I-frames put on the wire so far
    recvd,      \* I-frames accepted so far
    lastSend,   \* the latest command request: result and the counters before it
    lastAck,    \* the latest acknowledgment: result and the counters before it
    \* ---- dispatcher ----
    dispPc,     \* off / open / closed: the connection the ASDUs arrive on
    inbox,      \* type identifications of the ASDUs decoded, not yet dispatched
    arrived,    \* type identifications of all ASDUs decoded, in arrival order
    invoked     \* the handler calls made, in order: type, handler, result

codecVars == <<stage, src, wire, fromData, dataRes, dst0, dst, perr, wire2>>
srvVars == <<srvPc, addrOk, lastAccept, heap, conns>>
linkVars == <<linkState, hook, recvChan, sendQ, toPeer, fromPeer, ctxDone,
              fatal, timedOut, unsolicited, reconnects, connectRes,
              onConnectHandler, startSent, conRead, iSent>>
optionVars == <<optPc, argServer, argTimeout, urlOk, server, optErr, option,
                lastCall, prev, calls>>
flowVars == <<lsmState, sendSeq, ackSeq, recvSeq, unackedCount, pending,
              onWire, recvd, lastSend, lastAck>>
dispatchVars == <<dispPc, inbox, arrived, invoked>>
notCodec == <<srvVars, linkVars, optionVars, flowVars, dispatchVars>>
notServer == <<codecVars, linkVars, optionVars, flowVars, dispatchVars>>
notLink == <<codecVars, srvVars, optionVars, flowVars, dispatchVars>>
notOption == <<codecVars, srvVars, linkVars, flowVars, dispatchVars>>
notFlow == <<codecVars, srvVars, linkVars, optionVars, dispatchVars>>
notDispatch == <<codecVars, srvVars, linkVars, optionVars, flowVars>>

(***************************************************************************)
(* Bytes and bit operations                                                *)
(***************************************************************************)
Byte == 0..255

RECURSIVE BitAnd(_, _)
\* Go's & on unsigned integers.
BitAnd(a, b) ==
    IF a = 0 \/ b = 0 THEN 0
    ELSE (a % 2) * (b % 2) + 2 * BitAnd(a \div 2, b \div 2)

(***************************************************************************)
(* Bounds of the codec runs                                                *)
(***************************************************************************)
\* most information objects carried by an ASDU handed to Data
MaxIos == 1
\* most bytes that follow the header in a raw input handed to Parse
MaxPayload == 4

\* the length of the data unit identifier
AsduHeaderLen == 6
\* the length of an information object address
IoaLen == 3
\* the length of the one-byte information element (SIQ) of MSpNa1
SiqLen == 1

TypeIDVals == {1, 200}
NObjsVals == {0, 1, 2, 64, 127, 128, 129, 200, 255}
CotVals == {0, 3, 6, 47, 63, 64, 65, 128, 192, 255}
OrgVals == {0, 255}
CoaVals == {258, 65535}
\* bytes of the raw inputs: 70 = PN|6, 129 = SQ|1 = T|1, 195 = T|PN|3
RawBytes == {0, 1, 70, 129, 195}

\* the information object number i of a test ASDU
Obj(i) == [ioa |-> 65536 + 256 * i + 1, siq |-> 1]

IosInputs == {[i \in 1..n |-> Obj(i)] : n \in 0..MaxIos}

ASDUInputs ==
    [typeID : TypeIDVals, sq : BOOLEAN, nObjs : NObjsVals, t : BOOLEAN,
     pn : BOOLEAN, cot : CotVals, org : OrgVals, coa : CoaVals, ios : IosInputs]

\* the zero value of the struct ASDU
ZeroASDU ==
    [typeID |-> 0, sq |-> FALSE, nObjs |-> 0, t |-> FALSE, pn |-> FALSE,
     cot |-> 0, org |-> 0, coa |-> 0, ios |-> <<>>]

\* an ASDU that has been used before
StaleASDU ==
    [typeID |-> 100, sq |-> TRUE, nObjs |-> 1, t |-> TRUE, pn |-> TRUE,
     cot |-> 6, org |-> 7, coa |-> 513, ios |-> <<Obj(1)>>]

RECURSIVE SeqsUpTo(_, _)
\* all sequences over S of length at most n
SeqsUpTo(S, n) ==
    IF n = 0 THEN {<<>>}
    ELSE LET shorter == SeqsUpTo(S, n - 1)
         IN  shorter \cup {Append(s, b) : s \in {x \in shorter : Len(x) = n - 1}, b \in S}

\* raw inputs: every byte sequence up to a full header, and every full
\* header followed by up to MaxPayload bytes
RawInputs ==
    LET upToHeader == SeqsUpTo(RawBytes, AsduHeaderLen)
        headers == {h \in upToHeader : Len(h) = AsduHeaderLen}
    IN  upToHeader \cup {h \o [i \in 1..k |-> 1] : h \in headers, k \in 1..MaxPayload}

(***************************************************************************)
(* ASDU.Data                                                               *)
(***************************************************************************)
\* InformationObject.Data: the address, little-endian, then the element
IOData(o) ==
    <<o.ioa % 256, (o.ioa \div 256) % 256, (o.ioa \div 65536) % 256, o.siq>>

RECURSIVE IosData(_)
IosData(ios) ==
    IF ios = <<>> THEN <<>> ELSE IOData(Head(ios)) \o IosData(Tail(ios))

\* the 2nd byte as the code packs it
DataByte2(a) ==
    IF a.sq THEN BitAnd(128, a.nObjs) ELSE a.nObjs

\* the 3rd byte as the code packs it
DataByte3(a) ==
    IF a.t /\ a.pn THEN BitAnd(192, a.cot)
    ELSE IF a.t THEN BitAnd(128, a.cot)
    ELSE IF a.pn THEN BitAnd(64, a.cot)
    ELSE a.cot

Data(a) ==
    <<a.typeID, DataByte2(a), DataByte3(a), a.org, a.coa % 256, a.coa \div 256>>
        \o IosData(a.ios)

(***************************************************************************)
(* ASDU.Parse                                                              *)
(***************************************************************************)
\* a cause of transmission cut to 7 bits
parseCOT_SevenBits(b) == BitAnd(b, 127)

parseTypeID(b) == b
parseSQ(b) == BitAnd(b, 128) = 128
parseNOO(b) == BitAnd(b, 127)
parseT(b) == BitAnd(b, 128) = 128
parsePN(b) == BitAnd(b, 64) = 64
parseCOT(b) == BitAnd(b, 63)
parseORG(b) == b
parseCOA(d) == d[1] + 256 * d[2]

\* the guard with <= in place of <
HeaderTooShort_OffByOne(data) == Len(data) <= AsduHeaderLen

\* the guard of Parse: the input does not hold a header
HeaderTooShort(data) == Len(data) < AsduHeaderLen

\* the assignments of Parse up to the call of parseInformationObjects
ParseHeader(a, data) ==
    [a EXCEPT !.typeID = parseTypeID(data[1]),
              !.sq = parseSQ(data[2]),
              !.nObjs = parseNOO(data[2]),
              !.t = parseT(data[3]),
              !.pn = parsePN(data[3]),
              !.cot = parseCOT(data[3]),
              !.org = parseORG(data[4]),
              !.coa = parseCOA(SubSeq(data, 5, AsduHeaderLen))]

\* the bytes after the header
Payload(data) == SubSeq(data, AsduHeaderLen + 1, Len(data))

\* the bytes the declared objects need
Needed(a) ==
    IF a.nObjs = 0 THEN 0
    ELSE IF a.sq THEN IoaLen + a.nObjs * SiqLen
    ELSE a.nObjs * (IoaLen + SiqLen)

\* the objects that n payload bytes hold, SQ = 0
RECURSIVE DecodeIos(_, _)
DecodeIos(p, n) ==
    IF n = 0 \/ Len(p) < IoaLen + SiqLen THEN <<>>
    ELSE <<[ioa |-> p[1] + 256 * p[2] + 65536 * p[3], siq |-> p[4]]>>
            \o DecodeIos(SubSeq(p, IoaLen + SiqLen + 1, Len(p)), n - 1)

\* the objects of a sequence of elements, SQ = 1: addresses base, base+1, ...
DecodeSeq(p, n) ==
    IF Len(p) < IoaLen THEN <<>>
    ELSE LET base == p[1] + 256 * p[2] + 65536 * p[3]
             k == IF Len(p) - IoaLen < n * SiqLen THEN (Len(p) - IoaLen) \div SiqLen ELSE n
         IN  [i \in 1..k |-> [ioa |-> base + i - 1, siq |-> p[IoaLen + i]]]

\* parseInformationObjects has no result; a payload shorter than the declared
\* objects either stops the decoding early or makes a slice expression panic.
parseInformationObjects(a, p) ==
    LET ios == IF a.sq THEN DecodeSeq(p, a.nObjs) ELSE DecodeIos(p, a.nObjs)
    IN  IF Len(p) >= Needed(a)
        THEN {[asdu |-> [a EXCEPT !.ios = ios], err |-> "nil"]}
        ELSE {[asdu |-> [a EXCEPT !.ios = ios], err |-> "nil"],
              [asdu |-> a, err |-> "panic"]}

\* a Parse that clears the receiver before it fails
Parse_ClearsOnError(a, data) ==
    IF HeaderTooShort(data)
    THEN {[asdu |-> ZeroASDU, err |-> "hdr"]}
    ELSE parseInformationObjects(ParseHeader(a, data), Payload(data))

\* the outcomes of asdu.Parse(data) on receiver a
Parse(a, data) ==
    IF HeaderTooShort(data)
    THEN {[asdu |-> a, err |-> "hdr"]}
    ELSE parseInformationObjects(ParseHeader(a, data), Payload(data))

(***************************************************************************)
(* The codec runs                                                          *)
(***************************************************************************)
\* bytes := src.Data()
CallData ==
    /\ stage = "new" /\ fromData
    /\ wire' = Data(src)
    /\ dataRes' = "bytes"
    /\ stage' = "encoded"
    /\ UNCHANGED <<src, fromData, dst0, dst, perr, wire2>>
    /\ UNCHANGED notCodec

\* err := dst.Parse(wire)
CallParse ==
    /\ \/ stage = "encoded"
       \/ stage = "new" /\ ~fromData
    /\ \E r \in Parse(dst0, wire) :
          /\ dst' = r.asdu
          /\ perr' = r.err
    /\ stage' = "decoded"
    /\ UNCHANGED <<src, wire, fromData, dataRes, dst0, wire2>>
    /\ UNCHANGED notCodec

\* bytes2 := dst.Data(), after a Parse of Data's bytes that returned nil
CallDataAgain ==
    /\ stage = "decoded" /\ fromData /\ perr = "nil"
    /\ wire2' = Data(dst)
    /\ stage' = "reencoded"
    /\ UNCHANGED <<src, wire, fromData, dataRes, dst0, dst, perr>>
    /\ UNCHANGED notCodec

CodecNext == CallData \/ CallParse \/ CallDataAgain

(***************************************************************************)
(* Server.Serve and Server.serve                                           *)
(***************************************************************************)
\* most connections the listener accepts in a run
MaxConns == 2

\* a connection just accepted: go s.serve(&Conn{conn}, handler)
NewConn ==
    [pc |-> "option", option |-> 0, client |-> 0, ctx |-> 0,
     writer |-> FALSE, reader |-> FALSE]

\* s.listen() returns nil: Serve enters the accept loop
ListenOk ==
    /\ srvPc = "start"
    /\ srvPc' = "accept"
    /\ UNCHANGED <<addrOk, lastAccept, heap, conns>>
    /\ UNCHANGED notServer

\* s.listen() returns an error: Serve returns it
ListenErr ==
    /\ srvPc = "start"
    /\ srvPc' = "returned"
    /\ UNCHANGED <<addrOk, lastAccept, heap, conns>>
    /\ UNCHANGED notServer

\* Accept returns a connection: a goroutine s.serve is started for it
AcceptOk ==
    /\ srvPc = "accept"
    /\ Len(conns) < MaxConns
    /\ conns' = Append(conns, NewConn)
    /\ lastAccept' = "ok"
    /\ UNCHANGED <<srvPc, addrOk, heap>>
    /\ UNCHANGED notServer

\* what the error branch of the accept loop does: conn is nil when Accept
\* fails, and the branch evaluates conn.RemoteAddr() for the log line: a
\* nil-pointer panic in the goroutine of Serve, which ends the process
AcceptErrBranch == "panicked"

\* Accept returns (nil, err)
AcceptErr ==
    /\ srvPc = "accept"
    /\ lastAccept' = "err"
    /\ srvPc' = AcceptErrBranch
    /\ UNCHANGED <<addrOk, heap, conns>>
    /\ UNCHANGED notServer

\* the process runs: no goroutine has panicked
Running == srvPc = "accept"

\* option, _ := NewClientOption(s.address, handler): nil when url.Parse fails
ServeOption(i) ==
    /\ Running /\ conns[i].pc = "option"
    /\ IF addrOk
       THEN /\ heap' = heap + 1
            /\ conns' = [conns EXCEPT ![i].option = heap + 1, ![i].pc = "client"]
       ELSE /\ heap' = heap
            /\ conns' = [conns EXCEPT ![i].option = 0, ![i].pc = "client"]
    /\ UNCHANGED <<srvPc, addrOk, lastAccept>>
    /\ UNCHANGED notServer

\* client := NewClient(option)
ServeClient(i) ==
    /\ Running /\ conns[i].pc = "client"
    /\ heap' = heap + 1
    /\ conns' = [conns EXCEPT ![i].client = heap + 1, ![i].pc = "ctx"]
    /\ UNCHANGED <<srvPc, addrOk, lastAccept>>
    /\ UNCHANGED notServer

\* ctx, cancel := context.WithCancel(...); client.cancel = cancel; client.conn = conn
ServeContext(i) ==
    /\ Running /\ conns[i].pc = "ctx"
    /\ heap' = heap + 1
    /\ conns' = [conns EXCEPT ![i].ctx = heap + 1, ![i].pc = "writer"]
    /\ UNCHANGED <<srvPc, addrOk, lastAccept>>
    /\ UNCHANGED notServer

\* go client.writingToSocket(ctx)
ServeWriter(i) ==
    /\ Running /\ conns[i].pc = "writer"
    /\ conns' = [conns EXCEPT ![i].writer = TRUE, ![i].pc = "reader"]
    /\ UNCHANGED <<srvPc, addrOk, lastAccept, heap>>
    /\ UNCHANGED notServer

\* go client.readingFromSocket(ctx); serve returns
ServeReader(i) ==
    /\ Running /\ conns[i].pc = "reader"
    /\ conns' = [conns EXCEPT ![i].reader = TRUE, ![i].pc = "served"]
    /\ UNCHANGED <<srvPc, addrOk, lastAccept, heap>>
    /\ UNCHANGED notServer

\* a read or write error on an accepted connection: its loops end and the
\* connection is discarded
ConnFail(i) ==
    /\ Running /\ conns[i].pc = "served"
    /\ conns' = [conns EXCEPT ![i].writer = FALSE, ![i].reader = FALSE,
                              ![i].pc = "discarded"]
    /\ UNCHANGED <<srvPc, addrOk, lastAccept, heap>>
    /\ UNCHANGED notServer

ServerNext ==
    \/ ListenOk
    \/ ListenErr
    \/ AcceptOk
    \/ AcceptErr
    \/ \E i \in 1..Len(conns) :
          \/ ServeOption(i)
          \/ ServeClient(i)
          \/ ServeContext(i)
          \/ ServeWriter(i)
          \/ ServeReader(i)
          \/ ConnFail(i)

(***************************************************************************)
(* The client link: the hooks of NewClientOption and the connection engine *)
(***************************************************************************)
\* capacity of the send queue
MaxQueue == 2
\* confirmations the peer may send without a request
MaxUnsolicited == 1
\* invocations of the reconnect policy in a run
MaxReconnects == 1
\* I-frames the application sends on one connection
MaxIFrames == 1
\* capacity of c.recvChan, the single-slot signal
RecvChanCap == 1

StartDTA == "STARTDT-act"
StartDTC == "STARTDT-con"
StopDTA == "STOPDT-act"
StopDTC == "STOPDT-con"

\* the confirmation of an activation frame
ConOf(f) == IF f = StartDTA THEN StartDTC ELSE StopDTC

\* Connect: the dial starts
Dial ==
    /\ linkState = "Disconnected" /\ hook = "none" /\ connectRes = "none"
    /\ linkState' = "Connecting"
    /\ UNCHANGED <<hook, recvChan, sendQ, toPeer, fromPeer, ctxDone, fatal,
                   timedOut, unsolicited, reconnects, connectRes>>
    /\ UNCHANGED <<onConnectHandler, startSent, conRead, iSent>>
    /\ UNCHANGED notLink

\* the dial succeeds: the loops are started and the on-connect hook is called
DialOk ==
    /\ linkState = "Connecting"
    /\ linkState' = "StoppedDT"
    /\ hook' = IF onConnectHandler = "default" THEN "c_log" ELSE "u_run"
    /\ UNCHANGED <<recvChan, sendQ, toPeer, fromPeer, ctxDone, fatal,
                   timedOut, unsolicited, reconnects, connectRes>>
    /\ UNCHANGED <<onConnectHandler, startSent, conRead, iSent>>
    /\ UNCHANGED notLink

\* the dial fails within the connect timeout: Connect returns the error
DialFail ==
    /\ linkState = "Connecting"
    /\ linkState' = "Disconnected"
    /\ connectRes' = "ConnectTimeout"
    /\ UNCHANGED <<hook, recvChan, sendQ, toPeer, fromPeer, ctxDone, fatal,
                   timedOut, unsolicited, reconnects>>
    /\ UNCHANGED <<onConnectHandler, startSent, conRead, iSent>>
    /\ UNCHANGED notLink

\* an on-connect handler installed with SetOnConnectHandler runs instead of
\* the default one; the handler here is func(c *Client) {}: it returns at once
CustomOnConnect ==
    /\ hook = "u_run"
    /\ hook' = "c_done"
    /\ connectRes' = "ok"
    /\ UNCHANGED <<linkState, recvChan, sendQ, toPeer, fromPeer, ctxDone,
                   fatal, timedOut, unsolicited, reconnects>>
    /\ UNCHANGED <<onConnectHandler, startSent, conRead, iSent>>
    /\ UNCHANGED notLink

\* the application sends a command: an I-frame is queued, in StartedDT only
SendIFrame ==
    /\ linkState = "StartedDT" /\ ~ctxDone
    /\ iSent < MaxIFrames
    /\ Len(sendQ) < MaxQueue
    /\ sendQ' = Append(sendQ, "I")
    /\ iSent' = iSent + 1
    /\ UNCHANGED <<linkState, hook, recvChan, toPeer, fromPeer, ctxDone,
                   fatal, timedOut, unsolicited, reconnects, connectRes>>
    /\ UNCHANGED <<onConnectHandler, startSent, conRead>>
    /\ UNCHANGED notLink

\* the frame a hook sends
HookFrame == IF hook = "c_send" THEN StartDTA ELSE StopDTA

\* first statement of both hooks: _lg.Printf(..., c.conn.RemoteAddr())
HookLog ==
    /\ hook \in {"c_log", "d_log"}
    /\ hook' = IF hook = "c_log" THEN "c_send" ELSE "d_send"
    /\ UNCHANGED <<linkState, recvChan, sendQ, toPeer, fromPeer, ctxDone,
                   fatal, timedOut, unsolicited, reconnects, connectRes>>
    /\ UNCHANGED <<onConnectHandler, startSent, conRead, iSent>>
    /\ UNCHANGED notLink

\* second statement: c.sendUFrame(UFrameFunctionStartDTA / StopDTA)
HookSend ==
    /\ hook \in {"c_send", "d_send"}
    /\ Len(sendQ) < MaxQueue
    /\ sendQ' = Append(sendQ, HookFrame)
    /\ startSent' = IF hook = "c_send" THEN startSent + 1 ELSE startSent
    /\ hook' = IF hook = "c_send" THEN "c_wait" ELSE "d_wait"
    /\ UNCHANGED <<linkState, recvChan, toPeer, fromPeer, ctxDone, fatal,
                   timedOut, unsolicited, reconnects, connectRes>>
    /\ UNCHANGED <<onConnectHandler, conRead, iSent>>
    /\ UNCHANGED notLink

\* a receive that never blocks
RecvReady_Always == TRUE

\* what lets the third statement, <-c.recvChan, proceed: a value in the
\* channel, and nothing else
RecvReady == recvChan > 0

\* third statement: <-c.recvChan; the hook returns
HookRecv ==
    /\ hook \in {"c_wait", "d_wait"}
    /\ RecvReady
    /\ recvChan' = recvChan - 1
    /\ hook' = IF hook = "c_wait" THEN "c_done" ELSE "d_done"
    /\ linkState' = IF hook = "c_wait" /\ ~ctxDone THEN "StartedDT" ELSE linkState
    /\ connectRes' = IF hook = "c_wait" THEN "ok" ELSE connectRes
    /\ UNCHANGED <<sendQ, toPeer, fromPeer, ctxDone, fatal, timedOut,
                   unsolicited, reconnects>>
    /\ UNCHANGED <<onConnectHandler, startSent, conRead, iSent>>
    /\ UNCHANGED notLink

\* the write loop takes a frame from the queue and writes it to the stream
WriteLoop ==
    /\ linkState \in {"StoppedDT", "StartedDT"} /\ ~ctxDone
    /\ sendQ # <<>>
    /\ toPeer' = Append(toPeer, Head(sendQ))
    /\ sendQ' = Tail(sendQ)
    /\ UNCHANGED <<linkState, hook, recvChan, fromPeer, ctxDone, fatal,
                   timedOut, unsolicited, reconnects, connectRes>>
    /\ UNCHANGED <<onConnectHandler, startSent, conRead, iSent>>
    /\ UNCHANGED notLink

\* the read loop reads a confirmation and signals the pending handshake
ReadLoop ==
    /\ linkState \in {"StoppedDT", "StartedDT"} /\ ~ctxDone
    /\ fromPeer # <<>>
    /\ recvChan < RecvChanCap
    /\ recvChan' = recvChan + 1
    /\ conRead' = conRead + 1
    /\ fromPeer' = Tail(fromPeer)
    /\ UNCHANGED <<linkState, hook, sendQ, toPeer, ctxDone, fatal, timedOut,
                   unsolicited, reconnects, connectRes>>
    /\ UNCHANGED <<onConnectHandler, startSent, iSent>>
    /\ UNCHANGED notLink

\* the peer confirms an activation
PeerAnswer ==
    /\ toPeer # <<>> /\ Head(toPeer) \in {StartDTA, StopDTA}
    /\ toPeer' = Tail(toPeer)
    /\ fromPeer' = Append(fromPeer, ConOf(Head(toPeer)))
    /\ UNCHANGED <<linkState, hook, recvChan, sendQ, ctxDone, fatal,
                   timedOut, unsolicited, reconnects, connectRes>>
    /\ UNCHANGED <<onConnectHandler, startSent, conRead, iSent>>
    /\ UNCHANGED notLink

\* the peer reads a frame and sends nothing back
PeerDrop ==
    /\ toPeer # <<>>
    /\ toPeer' = Tail(toPeer)
    /\ UNCHANGED <<linkState, hook, recvChan, sendQ, fromPeer, ctxDone,
                   fatal, timedOut, unsolicited, reconnects, connectRes>>
    /\ UNCHANGED <<onConnectHandler, startSent, conRead, iSent>>
    /\ UNCHANGED notLink

\* the peer sends a confirmation nobody asked for
PeerUnsolicited ==
    /\ linkState \in {"StoppedDT", "StartedDT"} /\ ~ctxDone
    /\ unsolicited < MaxUnsolicited
    /\ fromPeer = <<>>
    /\ unsolicited' = unsolicited + 1
    /\ fromPeer' = Append(fromPeer, StartDTC)
    /\ UNCHANGED <<linkState, hook, recvChan, sendQ, toPeer, ctxDone, fatal,
                   timedOut, reconnects, connectRes>>
    /\ UNCHANGED <<onConnectHandler, startSent, conRead, iSent>>
    /\ UNCHANGED notLink

\* the connect timeout elapses while the on-connect hook waits
Timeout ==
    /\ hook = "c_wait" /\ ~timedOut
    /\ timedOut' = TRUE
    /\ UNCHANGED <<linkState, hook, recvChan, sendQ, toPeer, fromPeer,
                   ctxDone, fatal, unsolicited, reconnects, connectRes>>
    /\ UNCHANGED <<onConnectHandler, startSent, conRead, iSent>>
    /\ UNCHANGED notLink

\* Close: the shared context is cancelled, both loops exit
Close ==
    /\ linkState \in {"StoppedDT", "StartedDT"} /\ ~ctxDone
    /\ ctxDone' = TRUE
    /\ linkState' = "Disconnected"
    /\ toPeer' = <<>> /\ fromPeer' = <<>>
    /\ UNCHANGED <<hook, recvChan, sendQ, fatal, timedOut, unsolicited,
                   reconnects, connectRes>>
    /\ UNCHANGED <<onConnectHandler, startSent, conRead, iSent>>
    /\ UNCHANGED notLink

\* a read or write error on an established connection: both loops are
\* cancelled, the link is Disconnected and the disconnect hook is called
StreamError ==
    /\ linkState = "StartedDT" /\ hook = "c_done" /\ ~ctxDone
    /\ ctxDone' = TRUE
    /\ fatal' = TRUE
    /\ linkState' = "Disconnected"
    /\ toPeer' = <<>> /\ fromPeer' = <<>>
    /\ hook' = "d_log"
    /\ UNCHANGED <<recvChan, sendQ, timedOut, unsolicited, reconnects, connectRes>>
    /\ UNCHANGED <<onConnectHandler, startSent, conRead, iSent>>
    /\ UNCHANGED notLink

\* the disconnect hook has returned after a fatal error: the reconnect
\* policy is invoked and dials again
Reconnect ==
    /\ hook = "d_done" /\ fatal
    /\ reconnects < MaxReconnects
    /\ reconnects' = reconnects + 1
    /\ hook' = "none"
    /\ ctxDone' = FALSE
    /\ fatal' = FALSE
    /\ timedOut' = FALSE
    /\ connectRes' = "none"
    /\ startSent' = 0 /\ conRead' = 0 /\ iSent' = 0
    /\ UNCHANGED <<linkState, recvChan, sendQ, toPeer, fromPeer, unsolicited>>
    /\ UNCHANGED onConnectHandler
    /\ UNCHANGED notLink

LinkNext ==
    \/ Dial
    \/ DialOk
    \/ DialFail
    \/ CustomOnConnect
    \/ SendIFrame
    \/ HookLog
    \/ HookSend
    \/ HookRecv
    \/ WriteLoop
    \/ ReadLoop
    \/ PeerAnswer
    \/ PeerDrop
    \/ PeerUnsolicited
    \/ Timeout
    \/ Close
    \/ StreamError
    \/ Reconnect

(***************************************************************************)
(* The client options: NewClientOption and the setters of ClientOption     *)
(***************************************************************************)
\* most setter calls on an option in a run
MaxCalls == 2

DefaultReconnectRetries == 1
\* 3 * time.Second; durations are counted in seconds
DefaultReconnectInterval == 3

\* a nil pointer, a nil function or a nil interface
Nil == [nil |-> TRUE]

LocalHost == <<"1", "2", "7", ".", "0", ".", "0", ".", "1">>
TcpScheme == <<"t", "c", "p", ":", "/", "/">>
SchemeSep == <<":", "/", "/">>

\* strings.Contains(s, substr)
Contains(s, substr) ==
    \E i \in 1..(Len(s) - Len(substr) + 1) :
        SubSeq(s, i, i + Len(substr) - 1) = substr

\* if len(server) > 0 && server[0] == ':' { server = "127.0.0.1" + server }
InferHost(s) ==
    IF Len(s) > 0 /\ s[1] = ":" THEN LocalHost \o s ELSE s

\* the scheme step with the test left out
InferScheme_Always(s) == TcpScheme \o s

\* if !strings.Contains(server, "://") { server = "tcp://" + server }
InferScheme(s) ==
    IF ~Contains(s, SchemeSep) THEN TcpScheme \o s ELSE s

\* the value of server that is handed to url.Parse
Normalize(s) == InferScheme(InferHost(s))

\* the addresses tried: a lead, a separator and a rest, each possibly empty
AddrLeads == {<<>>, <<":">>, <<"h">>, <<"t", "c", "p">>}
AddrSeps == {<<>>, <<":">>, <<":", "/">>, <<":", "/", "/">>}
AddrRests == {<<>>, <<"h">>, <<"2", "4", "0", "4">>}
AddrInputs == {l \o m \o r : l \in AddrLeads, m \in AddrSeps, r \in AddrRests}

\* connect timeouts handed to NewClientOption and to SetConnectTimeout
TimeoutInputs == {-1, 0, 5}
SetTimeoutInputs == {-1, 0, 2}
\* rules handed to SetAutoReconnectRule
RuleInputs == {Nil} \cup [retries : {-1, 0, 2}, interval : {-1, 0, 2}]

\* the struct that NewClientOption returns with a nil error
NewOption(url, connecttimeout) ==
    [server |-> url,
     connectTimeout |-> connecttimeout,
     autoReconnectRule |-> [retries |-> DefaultReconnectRetries,
                            interval |-> DefaultReconnectInterval],
     onConnectHandler |-> "default",
     onDisconnectHandler |-> "default",
     handler |-> "handler",
     tc |-> "nil"]

SetConnectTimeout(o, timeout) ==
    IF timeout > 0 THEN [o EXCEPT !.connectTimeout = timeout] ELSE o

\* the rule setter with the two replacements tied together
SetAutoReconnectRule_Coupled(o, rule) ==
    IF rule = Nil THEN o
    ELSE IF rule.retries < 0 \/ rule.interval < 0
         THEN [o EXCEPT !.autoReconnectRule =
                  [retries |-> DefaultReconnectRetries,
                   interval |-> DefaultReconnectInterval]]
         ELSE [o EXCEPT !.autoReconnectRule = rule]

SetAutoReconnectRule(o, rule) ==
    IF rule = Nil THEN o
    ELSE [o EXCEPT !.autoReconnectRule =
             [retries |-> IF rule.retries < 0 THEN DefaultReconnectRetries
                          ELSE rule.retries,
              interval |-> IF rule.interval < 0 THEN DefaultReconnectInterval
                           ELSE rule.interval]]

SetTLS(o, tc) == [o EXCEPT !.tc = tc]

\* the on-connect setter with the nil test left out
SetOnConnectHandler_Unchecked(o, handler) ==
    [o EXCEPT !.onConnectHandler = handler]

SetOnConnectHandler(o, handler) ==
    IF handler # "nil" THEN [o EXCEPT !.onConnectHandler = handler] ELSE o

SetOnDisconnectHandler(o, handler) ==
    IF handler # "nil" THEN [o EXCEPT !.onDisconnectHandler = handler] ELSE o

NoCall == [op |-> "none", arg |-> Nil, ret |-> "none"]

\* option, err := NewClientOption(argServer, handler, argTimeout)
CallNewClientOption ==
    /\ optPc = "new"
    /\ server' = Normalize(argServer)
    /\ IF urlOk
       THEN /\ option' = NewOption(server', argTimeout)
            /\ optErr' = "nil"
            /\ optPc' = "built"
       ELSE /\ option' = Nil
            /\ optErr' = "err"
            /\ optPc' = "failed"
    /\ UNCHANGED <<argServer, argTimeout, urlOk, lastCall, prev, calls>>
    /\ UNCHANGED notOption

\* a setter is called on the option that was built; it updates the receiver
\* o in place and returns o
SetterCalled(op, arg, o) ==
    /\ optPc = "built" /\ calls < MaxCalls
    /\ prev' = option
    /\ option' = o
    /\ lastCall' = [op |-> op, arg |-> arg, ret |-> "o"]
    /\ calls' = calls + 1
    /\ UNCHANGED <<optPc, argServer, argTimeout, urlOk, server, optErr>>
    /\ UNCHANGED notOption

CallSetConnectTimeout ==
    \E timeout \in SetTimeoutInputs :
        SetterCalled("SetConnectTimeout", [timeout |-> timeout],
                     SetConnectTimeout(option, timeout))

CallSetAutoReconnectRule ==
    \E rule \in RuleInputs :
        SetterCalled("SetAutoReconnectRule", rule,
                     SetAutoReconnectRule(option, rule))

CallSetTLS ==
    \E tc \in {"nil", "cfg"} :
        SetterCalled("SetTLS", [tc |-> tc], SetTLS(option, tc))

CallSetOnConnectHandler ==
    \E handler \in {"nil", "custom"} :
        SetterCalled("SetOnConnectHandler", [handler |-> handler],
                     SetOnConnectHandler(option, handler))

CallSetOnDisconnectHandler ==
    \E handler \in {"nil", "custom"} :
        SetterCalled("SetOnDisconnectHandler", [handler |-> handler],
                     SetOnDisconnectHandler(option, handler))

OptionNext ==
    \/ CallNewClientOption
    \/ CallSetConnectTimeout
    \/ CallSetAutoReconnectRule
    \/ CallSetTLS
    \/ CallSetOnConnectHandler
    \/ CallSetOnDisconnectHandler

(***************************************************************************)
(* The link session: sequence counters and the send window                 *)
(***************************************************************************)
\* the configured window: most I-frames sent and not yet acknowledged
k == 3
\* most I-frames put on the wire, and most I-frames received, in a run
MaxSends == 5
MaxRecvs == 2

\* sequence counters are 15-bit
SeqMod == 2 ^ 15

\* the successor of a sequence counter
Inc(n) == (n + 1) % SeqMod

\* counter values a connection starts a run with: fresh, and close to the wrap
StartSeqs == {0, SeqMod - 2, SeqMod - 1}

\* a send may go to the wire at the full window too
WindowOpen_OffByOne == unackedCount <= k

\* a send may go to the wire
WindowOpen == unackedCount < k

\* an acknowledgment compared without regard to the wrap
AckValid_NoWrap(n) == ackSeq <= n /\ n <= sendSeq

\* the acknowledgment n lies within the window: it acknowledges no more
\* than the frames sent and not yet acknowledged
AckValid(n) == (n - ackSeq) % SeqMod <= (sendSeq - ackSeq) % SeqMod

\* acknowledgments a peer may send: every one in the window, and some outside
AckInputs ==
    {(ackSeq + d) % SeqMod : d \in 0..unackedCount}
        \cup {Inc(sendSeq), (ackSeq - 1) % SeqMod, (sendSeq + 2 ^ 14) % SeqMod}

NoSend == [res |-> "none", seq |-> 0, unacked |-> 0]
NoAck == [res |-> "none", n |-> 0, ackSeq |-> 0, sendSeq |-> 0]

\* STARTDT-con received: StoppedDT -> StartedDT
StartDT ==
    /\ lsmState = "StoppedDT"
    /\ lsmState' = "StartedDT"
    /\ UNCHANGED <<sendSeq, ackSeq, recvSeq, unackedCount, pending, onWire,
                   recvd, lastSend, lastAck>>
    /\ UNCHANGED notFlow

\* STOPDT: StartedDT -> StoppedDT; a pending I-frame send is dropped
StopDT ==
    /\ lsmState = "StartedDT"
    /\ lsmState' = "StoppedDT"
    /\ pending' = FALSE
    /\ UNCHANGED <<sendSeq, ackSeq, recvSeq, unackedCount, onWire, recvd,
                   lastSend, lastAck>>
    /\ UNCHANGED notFlow

\* an I-frame goes to the wire with the send sequence number
WriteIFrame ==
    /\ onWire' = onWire + 1
    /\ sendSeq' = Inc(sendSeq)
    /\ unackedCount' = unackedCount + 1
    /\ lastSend' = [res |-> "sent", seq |-> sendSeq, unacked |-> unackedCount]

\* an outbound command request
SendCommand ==
    /\ lsmState \in {"StoppedDT", "StartedDT", "Disconnected"}
    /\ ~pending /\ onWire < MaxSends
    /\ IF lsmState # "StartedDT"
       THEN /\ lastSend' = [res |-> "NotConnected", seq |-> sendSeq,
                            unacked |-> unackedCount]
            /\ UNCHANGED <<sendSeq, unackedCount, pending, onWire>>
       ELSE IF WindowOpen
       THEN WriteIFrame /\ UNCHANGED pending
       ELSE /\ pending' = TRUE
            /\ lastSend' = [res |-> "blocked", seq |-> sendSeq,
                            unacked |-> unackedCount]
            /\ UNCHANGED <<sendSeq, unackedCount, onWire>>
    /\ UNCHANGED <<lsmState, ackSeq, recvSeq, recvd, lastAck>>
    /\ UNCHANGED notFlow

\* a blocked send goes on once the window is open
Unblock ==
    /\ lsmState = "StartedDT" /\ pending
    /\ WindowOpen
    /\ WriteIFrame
    /\ pending' = FALSE
    /\ UNCHANGED <<lsmState, ackSeq, recvSeq, recvd, lastAck>>
    /\ UNCHANGED notFlow

\* an acknowledgment n arrives, in an S-frame or in an I-frame of the peer
RecvAck ==
    /\ lsmState = "StartedDT"
    /\ \E n \in AckInputs :
          /\ IF AckValid(n)
             THEN /\ ackSeq' = n
                  /\ unackedCount' = (sendSeq - n) % SeqMod
                  /\ lsmState' = lsmState
                  /\ pending' = pending
             ELSE /\ lsmState' = "Disconnected"
                  /\ pending' = FALSE
                  /\ UNCHANGED <<ackSeq, unackedCount>>
          /\ lastAck' = [res |-> IF AckValid(n) THEN "accepted" ELSE "rejected",
                         n |-> n, ackSeq |-> ackSeq, sendSeq |-> sendSeq]
    /\ UNCHANGED <<sendSeq, recvSeq, onWire, recvd, lastSend>>
    /\ UNCHANGED notFlow

\* an I-frame of the peer is accepted in StartedDT
RecvIFrame ==
    /\ lsmState = "StartedDT"
    /\ recvd < MaxRecvs
    /\ recvd' = recvd + 1
    /\ recvSeq' = Inc(recvSeq)
    /\ UNCHANGED <<lsmState, sendSeq, ackSeq, unackedCount, pending, onWire,
                   lastSend, lastAck>>
    /\ UNCHANGED notFlow

FlowNext ==
    \/ StartDT
    \/ StopDT
    \/ SendCommand
    \/ Unblock
    \/ RecvAck
    \/ RecvIFrame

(***************************************************************************)
(* The dispatcher: one handler call per decoded ASDU                       *)
(***************************************************************************)
\* most ASDUs that arrive on the connection in a run
MaxAsdus == 2

\* the command types with a handler slot of their own
CIcNa1 == 100
CCiNa1 == 101
CRdNa1 == 102
CCsNa1 == 103
CTsNb1 == 104
CRpNc1 == 105
CCdNa1 == 106

\* type identifications of the ASDUs that arrive: the seven commands, a
\* monitored value (MSpNa1), the command next to the seven (CTsTa1) and an
\* undeclared type
DispatchTypeIDs == {100, 101, 102, 103, 104, 105, 106, 1, 107, 200}

\* the handler slots of ClientHandler
Handlers ==
    {"GeneralInterrogationHandler", "CounterInterrogationHandler",
     "ReadCommandHandler", "ClockSynchronizationHandler",
     "TestCommandHandler", "ResetProcessCommandHandler",
     "DelayAcquisitionCommandHandler", "APDUHandler"}

\* a routing that sends every type above 100 to a command slot
HandlerOf_NoCatchAll(typeID) ==
    IF typeID = CIcNa1 THEN "GeneralInterrogationHandler"
    ELSE IF typeID = CCiNa1 THEN "CounterInterrogationHandler"
    ELSE IF typeID = CRdNa1 THEN "ReadCommandHandler"
    ELSE IF typeID = CCsNa1 THEN "ClockSynchronizationHandler"
    ELSE IF typeID = CTsNb1 THEN "TestCommandHandler"
    ELSE IF typeID = CRpNc1 THEN "ResetProcessCommandHandler"
    ELSE IF typeID >= CCdNa1 THEN "DelayAcquisitionCommandHandler"
    ELSE "APDUHandler"

\* the slot an ASDU is routed to by its type identification
HandlerOf(typeID) ==
    IF typeID = CIcNa1 THEN "GeneralInterrogationHandler"
    ELSE IF typeID = CCiNa1 THEN "CounterInterrogationHandler"
    ELSE IF typeID = CRdNa1 THEN "ReadCommandHandler"
    ELSE IF typeID = CCsNa1 THEN "ClockSynchronizationHandler"
    ELSE IF typeID = CTsNb1 THEN "TestCommandHandler"
    ELSE IF typeID = CRpNc1 THEN "ResetProcessCommandHandler"
    ELSE IF typeID = CCdNa1 THEN "DelayAcquisitionCommandHandler"
    ELSE "APDUHandler"

\* the connection after a handler has returned err: a handler error is
\* logged and not passed on to the connection engine
AfterHandler(err) == "open"

\* the read loop has decoded an ASDU of an I-frame
Arrive ==
    /\ dispPc = "open"
    /\ Len(arrived) < MaxAsdus
    /\ \E typeID \in DispatchTypeIDs :
          /\ arrived' = Append(arrived, typeID)
          /\ inbox' = Append(inbox, typeID)
    /\ UNCHANGED <<dispPc, invoked>>
    /\ UNCHANGED notDispatch

\* Dispatch of the oldest ASDU: its handler is called and returns nil or an
\* error; the error is logged and goes no further
Dispatch ==
    /\ dispPc = "open"
    /\ inbox # <<>>
    /\ \E err \in {"nil", "error"} :
          /\ invoked' = Append(invoked, [typeID |-> Head(inbox),
                                         handler |-> HandlerOf(Head(inbox)),
                                         err |-> err])
          /\ dispPc' = AfterHandler(err)
    /\ inbox' = Tail(inbox)
    /\ UNCHANGED arrived
    /\ UNCHANGED notDispatch

DispatchNext == Arrive \/ Dispatch

(***************************************************************************)
(* Specifications                                                          *)
(***************************************************************************)
vars == <<codecVars, srvVars, linkVars, optionVars, flowVars, dispatchVars>>

\* a codec run: an ASDU to encode, or raw bytes to decode
InitCodec ==
    /\ stage = "new"
    /\ dst0 \in {ZeroASDU, StaleASDU}
    /\ dst = dst0
    /\ perr = "none"
    /\ dataRes = "none"
    /\ wire2 = <<>>
    /\ \/ src \in ASDUInputs /\ wire = <<>> /\ fromData = TRUE
       \/ src = ZeroASDU /\ wire \in RawInputs /\ fromData = FALSE
    /\ srvPc = "off" /\ addrOk = TRUE /\ lastAccept = "none" /\ heap = 0
    /\ conns = <<>>
    /\ linkState = "off" /\ hook = "none" /\ recvChan = 0 /\ sendQ = <<>>
    /\ toPeer = <<>> /\ fromPeer = <<>> /\ ctxDone = FALSE /\ fatal = FALSE
    /\ timedOut = FALSE /\ unsolicited = 0 /\ reconnects = 0
    /\ connectRes = "none" /\ onConnectHandler = "default"
    /\ startSent = 0 /\ conRead = 0 /\ iSent = 0
    /\ optPc = "off" /\ argServer = <<>> /\ argTimeout = 0 /\ urlOk = TRUE
    /\ server = <<>> /\ optErr = "none" /\ option = Nil /\ lastCall = NoCall
    /\ prev = Nil /\ calls = 0
    /\ lsmState = "off" /\ sendSeq = 0 /\ ackSeq = 0 /\ recvSeq = 0
    /\ unackedCount = 0 /\ pending = FALSE /\ onWire = 0 /\ recvd = 0
    /\ lastSend = NoSend /\ lastAck = NoAck
    /\ dispPc = "off" /\ inbox = <<>> /\ arrived = <<>> /\ invoked = <<>>

\* a server after NewServer, before Serve
InitServer ==
    /\ srvPc = "start"
    /\ addrOk \in BOOLEAN
    /\ lastAccept = "none"
    /\ heap = 0
    /\ conns = <<>>
    /\ stage = "off" /\ src = ZeroASDU /\ wire = <<>> /\ fromData = FALSE
    /\ dataRes = "none" /\ dst0 = ZeroASDU /\ dst = ZeroASDU /\ perr = "none"
    /\ wire2 = <<>>
    /\ linkState = "off" /\ hook = "none" /\ recvChan = 0 /\ sendQ = <<>>
    /\ toPeer = <<>> /\ fromPeer = <<>> /\ ctxDone = FALSE /\ fatal = FALSE
    /\ timedOut = FALSE /\ unsolicited = 0 /\ reconnects = 0
    /\ connectRes = "none" /\ onConnectHandler = "default"
    /\ startSent = 0 /\ conRead = 0 /\ iSent = 0
    /\ optPc = "off" /\ argServer = <<>> /\ argTimeout = 0 /\ urlOk = TRUE
    /\ server = <<>> /\ optErr = "none" /\ option = Nil /\ lastCall = NoCall
    /\ prev = Nil /\ calls = 0
    /\ lsmState = "off" /\ sendSeq = 0 /\ ackSeq = 0 /\ recvSeq = 0
    /\ unackedCount = 0 /\ pending = FALSE /\ onWire = 0 /\ recvd = 0
    /\ lastSend = NoSend /\ lastAck = NoAck
    /\ dispPc = "off" /\ inbox = <<>> /\ arrived = <<>> /\ invoked = <<>>

\* a client after NewClient, before Connect
InitLink ==
    /\ linkState = "Disconnected" /\ hook = "none" /\ recvChan = 0
    /\ sendQ = <<>> /\ toPeer = <<>> /\ fromPeer = <<>> /\ ctxDone = FALSE
    /\ fatal = FALSE /\ timedOut = FALSE /\ unsolicited = 0 /\ reconnects = 0
    /\ connectRes = "none"
    /\ onConnectHandler \in {"default", "custom"}
    /\ startSent = 0 /\ conRead = 0 /\ iSent = 0
    /\ stage = "off" /\ src = ZeroASDU /\ wire = <<>> /\ fromData = FALSE
    /\ dataRes = "none" /\ dst0 = ZeroASDU /\ dst = ZeroASDU /\ perr = "none"
    /\ wire2 = <<>>
    /\ srvPc = "off" /\ addrOk = TRUE /\ lastAccept = "none" /\ heap = 0
    /\ conns = <<>>
    /\ optPc = "off" /\ argServer = <<>> /\ argTimeout = 0 /\ urlOk = TRUE
    /\ server = <<>> /\ optErr = "none" /\ option = Nil /\ lastCall = NoCall
    /\ prev = Nil /\ calls = 0
    /\ lsmState = "off" /\ sendSeq = 0 /\ ackSeq = 0 /\ recvSeq = 0
    /\ unackedCount = 0 /\ pending = FALSE /\ onWire = 0 /\ recvd = 0
    /\ lastSend = NoSend /\ lastAck = NoAck
    /\ dispPc = "off" /\ inbox = <<>> /\ arrived = <<>> /\ invoked = <<>>

\* an application about to build its options
InitOption ==
    /\ optPc = "new"
    /\ argServer \in AddrInputs
    /\ argTimeout \in TimeoutInputs
    /\ urlOk \in BOOLEAN
    /\ server = <<>> /\ optErr = "none" /\ option = Nil /\ lastCall = NoCall
    /\ prev = Nil /\ calls = 0
    /\ stage = "off" /\ src = ZeroASDU /\ wire = <<>> /\ fromData = FALSE
    /\ dataRes = "none" /\ dst0 = ZeroASDU /\ dst = ZeroASDU /\ perr = "none"
    /\ wire2 = <<>>
    /\ srvPc = "off" /\ addrOk = TRUE /\ lastAccept = "none" /\ heap = 0
    /\ conns = <<>>
    /\ linkState = "off" /\ hook = "none" /\ recvChan = 0 /\ sendQ = <<>>
    /\ toPeer = <<>> /\ fromPeer = <<>> /\ ctxDone = FALSE /\ fatal = FALSE
    /\ timedOut = FALSE /\ unsolicited = 0 /\ reconnects = 0
    /\ connectRes = "none" /\ onConnectHandler = "default"
    /\ startSent = 0 /\ conRead = 0 /\ iSent = 0
    /\ lsmState = "off" /\ sendSeq = 0 /\ ackSeq = 0 /\ recvSeq = 0
    /\ unackedCount = 0 /\ pending = FALSE /\ onWire = 0 /\ recvd = 0
    /\ lastSend = NoSend /\ lastAck = NoAck
    /\ dispPc = "off" /\ inbox = <<>> /\ arrived = <<>> /\ invoked = <<>>

\* a link session in StoppedDT; its counters are fresh or close to the wrap
InitFlow ==
    /\ lsmState = "StoppedDT"
    /\ sendSeq \in StartSeqs /\ ackSeq = sendSeq
    /\ recvSeq \in {0, SeqMod - 1}
    /\ unackedCount = 0 /\ pending = FALSE /\ onWire = 0 /\ recvd = 0
    /\ lastSend = NoSend /\ lastAck = NoAck
    /\ stage = "off" /\ src = ZeroASDU /\ wire = <<>> /\ fromData = FALSE
    /\ dataRes = "none" /\ dst0 = ZeroASDU /\ dst = ZeroASDU /\ perr = "none"
    /\ wire2 = <<>>
    /\ srvPc = "off" /\ addrOk = TRUE /\ lastAccept = "none" /\ heap = 0
    /\ conns = <<>>
    /\ linkState = "off" /\ hook = "none" /\ recvChan = 0 /\ sendQ = <<>>
    /\ toPeer = <<>> /\ fromPeer = <<>> /\ ctxDone = FALSE /\ fatal = FALSE
    /\ timedOut = FALSE /\ unsolicited = 0 /\ reconnects = 0
    /\ connectRes = "none" /\ onConnectHandler = "default"
    /\ startSent = 0 /\ conRead = 0 /\ iSent = 0
    /\ optPc = "off" /\ argServer = <<>> /\ argTimeout = 0 /\ urlOk = TRUE
    /\ server = <<>> /\ optErr = "none" /\ option = Nil /\ lastCall = NoCall
    /\ prev = Nil /\ calls = 0
    /\ dispPc = "off" /\ inbox = <<>> /\ arrived = <<>> /\ invoked = <<>>

\* an open connection on which no ASDU has arrived yet
InitDispatch ==
    /\ dispPc = "open" /\ inbox = <<>> /\ arrived = <<>> /\ invoked = <<>>
    /\ stage = "off" /\ src = ZeroASDU /\ wire = <<>> /\ fromData = FALSE
    /\ dataRes = "none" /\ dst0 = ZeroASDU /\ dst = ZeroASDU /\ perr = "none"
    /\ wire2 = <<>>
    /\ srvPc = "off" /\ addrOk = TRUE /\ lastAccept = "none" /\ heap = 0
    /\ conns = <<>>
    /\ linkState = "off" /\ hook = "none" /\ recvChan = 0 /\ sendQ = <<>>
    /\ toPeer = <<>> /\ fromPeer = <<>> /\ ctxDone = FALSE /\ fatal = FALSE
    /\ timedOut = FALSE /\ unsolicited = 0 /\ reconnects = 0
    /\ connectRes = "none" /\ onConnectHandler = "default"
    /\ startSent = 0 /\ conRead = 0 /\ iSent = 0
    /\ optPc = "off" /\ argServer = <<>> /\ argTimeout = 0 /\ urlOk = TRUE
    /\ server = <<>> /\ optErr = "none" /\ option = Nil /\ lastCall = NoCall
    /\ prev = Nil /\ calls = 0
    /\ lsmState = "off" /\ sendSeq = 0 /\ ackSeq = 0 /\ recvSeq = 0
    /\ unackedCount = 0 /\ pending = FALSE /\ onWire = 0 /\ recvd = 0
    /\ lastSend = NoSend /\ lastAck = NoAck

SpecCodec == InitCodec /\ [][CodecNext]_vars

SpecServer == InitServer /\ [][ServerNext]_vars

SpecLink == InitLink /\ [][LinkNext]_vars

SpecOption == InitOption /\ [][OptionNext]_vars

SpecFlow == InitFlow /\ [][FlowNext]_vars

SpecDispatch == InitDispatch /\ [][DispatchNext]_vars

\* the goroutines of the client are scheduled: a step of a hook or of a loop
\* that stays possible is taken.  Nothing is assumed of the peer, of the
\* stream or of the caller of Close.
FairSpecLink ==
    /\ SpecLink
    /\ WF_vars(HookLog) /\ WF_vars(HookSend) /\ WF_vars(HookRecv)
    /\ WF_vars(CustomOnConnect)
    /\ WF_vars(WriteLoop) /\ WF_vars(ReadLoop)
    /\ WF_vars(Timeout) /\ WF_vars(Reconnect)

Init ==
    InitCodec \/ InitServer \/ InitLink \/ InitOption \/ InitFlow \/ InitDispatch

Next ==
    CodecNext \/ ServerNext \/ LinkNext \/ OptionNext \/ FlowNext \/ DispatchNext

Spec == Init /\ [][Next]_vars

(***************************************************************************)
(* Claims about the client link and the listener                           *)
(***************************************************************************)
\* a hook is suspended in <-c.recvChan
HookWaiting == hook \in {"c_wait", "d_wait"}

\* C1: the STARTDT wait has a timeout fallback.  Once the connect timeout
\* has elapsed while the on-connect hook waits for STARTDT-con on an open
\* connection, the wait ends (or the connection is closed).
C1_HandshakeWaitTimesOut ==
    (hook = "c_wait" /\ timedOut /\ ~ctxDone) ~> (hook # "c_wait" \/ ctxDone)

\* C2: a handshake wait observes cancellation.  Once the context is
\* cancelled while a hook waits for its confirmation, the hook is released.
C2_WaitObservesCancel ==
    (HookWaiting /\ ctxDone) ~> ~HookWaiting

\* C4: after a fatal read/write error the disconnect hook completes, so
\* that the reconnect policy is invoked.
C4_DisconnectHookCompletes ==
    fatal ~> (hook = "d_done")

\* C3: once the listener is established no failure stops the accept loop:
\* after an Accept call that returned an error Serve is still accepting.
C3_AcceptLoopSurvives ==
    lastAccept = "err" => srvPc = "accept"

\* the handshake ordering of one connection: no STARTDT-act before the hook
\* sends, exactly one from the send on, a confirmation received before the
\* hook returns, and no I-frame before a confirmation has been received
HandshakeOrdered ==
    /\ hook \in {"c_log", "c_send", "u_run"} => startSent = 0
    /\ hook \in {"c_wait", "c_done"} => startSent = 1
    /\ hook = "c_done" => conRead > 0
    /\ iSent > 0 => conRead > 0

C13_OwnEngine ==
    \A i \in 1..Len(conns) :
        conns[i].pc = "served"
            => /\ conns[i].option # 0 /\ conns[i].client # 0 /\ conns[i].ctx # 0
               /\ conns[i].writer /\ conns[i].reader
               /\ \A j \in 1..Len(conns) :
                     j # i => /\ conns[j].option # conns[i].option
                              /\ conns[j].client # conns[i].client
                              /\ conns[j].ctx # conns[i].ctx

\* C16: no connection engine is started from a failed construction: an
\* accepted connection whose write loop or read loop runs has an option that
\* NewClientOption returned without an error.
C16_NoEngineFromFailedConstruction ==
    \A i \in 1..Len(conns) :
        (conns[i].writer \/ conns[i].reader) => conns[i].option # 0

(***************************************************************************)
(* Claims about the codec                                                  *)
(***************************************************************************)
\* the fields the encoding can hold: a 7-bit count and a 6-bit cause
InRange(a) == a.nObjs <= 127 /\ a.cot <= 63

\* the data unit identifier of an ASDU
Header(a) == <<a.typeID, a.sq, a.nObjs, a.t, a.pn, a.cot, a.org, a.coa>>

Bit(b) == IF b THEN 1 ELSE 0

\* C5: header round trip.  For an ASDU with nObjs in 0..127 and cot in 0..63,
\* Parse applied to the bytes produced by Data yields the same typeID, sq,
\* nObjs, t, pn, cot, org and coa.
C5_HeaderRoundTrip ==
    (stage = "decoded" /\ fromData /\ InRange(src) /\ perr = "nil")
        => Header(dst) = Header(src)

\* C6: Data packs by bitwise OR.  For nObjs in 0..127 and cot in 0..63 the
\* second byte is 128*sq + nObjs and the third byte is 128*t + 64*pn + cot.
C6_PackingRule ==
    (stage = "encoded" /\ InRange(src))
        => /\ wire[2] = 128 * Bit(src.sq) + src.nObjs
           /\ wire[3] = 128 * Bit(src.t) + 64 * Bit(src.pn) + src.cot

\* C7: Data on an ASDU with nObjs > 127 or cot > 63 is rejected as an
\* InvalidField error and produces no bytes.
C7_OutOfRangeRejected ==
    (stage = "encoded" /\ ~InRange(src))
        => dataRes = "InvalidField" /\ wire = <<>>

\* C8: canonical form.  For every ASDU x, Data(Parse(Data(x))) equals Data(x)
\* on the 6 header bytes, and on the whole message when x carries no
\* information objects.
C8_CanonicalForm ==
    stage = "reencoded"
        => /\ SubSeq(wire2, 1, 6) = SubSeq(wire, 1, 6)
           /\ (src.ios = <<>> => wire2 = wire)

\* C9: Parse returns the malformed-header error exactly when the input has
\* fewer than 6 bytes.
C9_MalformedHeaderIffShort ==
    stage = "decoded" => (perr = "hdr" <=> Len(wire) < 6)

\* C9 witness: an input of 5 bytes has been rejected with the header error.
C9_ShortInputRejected ==
    stage = "decoded" /\ Len(wire) = 5 /\ perr = "hdr"

\* C10: Parse fails with a TruncatedPayload error when the header is complete,
\* declares at least one object and no byte follows the header.
C10_TruncatedPayloadRejected ==
    (stage = "decoded" /\ Len(wire) = 6 /\ parseNOO(wire[2]) > 0)
        => perr = "TruncatedPayload"

\* the type identifications the package declares
KnownTypeIDs ==
    {1, 2, 3, 4, 9, 10, 11, 12, 13, 14, 15, 16, 21, 30, 31, 34, 35, 36, 37,
     45, 46, 47, 48, 49, 50, 58, 59, 61, 62, 63,
     100, 101, 102, 103, 104, 105, 106, 107}

\* C11: Parse fails with an UnknownTypeID error when the header is complete
\* and its type identification byte is not a declared TypeID (0, 70, 200...).
C11_UnknownTypeIDRejected ==
    (stage = "decoded" /\ Len(wire) >= AsduHeaderLen /\ wire[1] \notin KnownTypeIDs)
        => perr = "UnknownTypeID"

\* C22: header decode matches the wire layout.  After Parse of an input of
\* at least 6 bytes the header fields are: typeID the first byte; sq bit 7 and
\* nObjs the low 7 bits of the second; t bit 7, pn bit 6 and cot the low 6
\* bits of the third; org the fourth; coa the fifth plus 256 times the sixth;
\* so nObjs <= 127 and cot <= 63.
C22_HeaderDecodeLayout ==
    (stage = "decoded" /\ Len(wire) >= 6)
        => /\ dst.typeID = wire[1]
           /\ dst.sq = (wire[2] \div 128 = 1)
           /\ dst.nObjs = wire[2] % 128
           /\ dst.t = (wire[3] \div 128 = 1)
           /\ dst.pn = ((wire[3] \div 64) % 2 = 1)
           /\ dst.cot = wire[3] % 64
           /\ dst.org = wire[4]
           /\ dst.coa = wire[5] + 256 * wire[6]
           /\ dst.nObjs <= 127 /\ dst.cot <= 63

\* C22 witness: the header 01 81 C3 46 46 01 has been parsed successfully:
\* sq and count 1, t, pn and cause 3, common address 0x0146.
C22_AllBitsDecoded ==
    /\ stage = "decoded" /\ perr = "nil"
    /\ SubSeq(wire, 1, 6) = <<1, 129, 195, 70, 70, 1>>
    /\ dst.sq /\ dst.nObjs = 1 /\ dst.t /\ dst.pn /\ dst.cot = 3
    /\ dst.org = 70 /\ dst.coa = 326

\* C23: the object count is consistent with the objects.  In a message
\* produced by Data from an ASDU whose nObjs is the number of its objects,
\* the count in the low 7 bits of the second byte is the number of
\* information objects written after the header.
C23_CountMatchesObjects ==
    (stage = "encoded" /\ src.nObjs = Len(src.ios))
        => /\ wire[2] % 128 = Len(src.ios)
           /\ Len(wire) = AsduHeaderLen + Len(IosData(src.ios))

\* C25: a failed Parse has no effect.  When Parse has returned the header
\* error, for an input shorter than 6 bytes, the ASDU is as it was before the
\* call, field by field.
C25_FailedParseNoEffect ==
    (stage = "decoded" /\ perr = "hdr")
        => /\ Len(wire) < 6
           /\ Header(dst) = Header(dst0)
           /\ dst.ios = dst0.ios

\* C25 witness: Parse of a 5-byte input has failed on an ASDU that had been
\* used before, and the ASDU still holds its earlier values.
C25_UsedAsduKept ==
    /\ stage = "decoded" /\ perr = "hdr" /\ Len(wire) = 5
    /\ dst0 = StaleASDU /\ dst = StaleASDU

(***************************************************************************)
(* Claims about the client options                                         *)
(***************************************************************************)
\* C14: SetAutoReconnectRule never rejects a rule.  A freshly built option
\* has retries 1 and interval 3 s; after a call with a rule, the option holds
\* the rule with a negative retries replaced by 1 and a negative interval
\* replaced by 3 s, each on its own, and non-negative values as given; the
\* call leaves a built option in place.
C14_RuleNormalized ==
    /\ (optPc = "built" /\ calls = 0)
          => option.autoReconnectRule = [retries |-> 1, interval |-> 3]
    /\ (lastCall.op = "SetAutoReconnectRule" /\ lastCall.arg # Nil)
          => /\ optPc = "built" /\ option # Nil
             /\ option.autoReconnectRule.retries =
                   IF lastCall.arg.retries < 0 THEN 1 ELSE lastCall.arg.retries
             /\ option.autoReconnectRule.interval =
                   IF lastCall.arg.interval < 0 THEN 3 ELSE lastCall.arg.interval

\* C14 witness: a rule with a negative retries and a zero interval has been
\* set; only the retries were replaced.
C14_NegativeRetriesOnly ==
    /\ lastCall.op = "SetAutoReconnectRule" /\ lastCall.arg # Nil
    /\ lastCall.arg.retries < 0 /\ lastCall.arg.interval = 0
    /\ option.autoReconnectRule = [retries |-> 1, interval |-> 0]

\* C15: the connect timeout held by a built option is positive, whatever
\* timeout NewClientOption was given and whatever SetConnectTimeout calls
\* followed.
C15_TimeoutAlwaysPositive ==
    optPc = "built" => option.connectTimeout > 0

\* the address starts with ':'
StartsWithColon(s) == Len(s) > 0 /\ s[1] = ":"

\* NewClientOption has computed the address it hands to url.Parse
Normalized == optPc \in {"built", "failed"}

\* C17 as stated: an address that starts with ':' gets 127.0.0.1 prepended,
\* an address without "://" gets tcp:// prepended, an address that contains
\* "://" is kept as given, and normalizing the result changes nothing.
C17_AddressInference ==
    Normalized =>
        /\ StartsWithColon(argServer) /\ ~Contains(argServer, SchemeSep)
              => server = TcpScheme \o LocalHost \o argServer
        /\ ~StartsWithColon(argServer) /\ ~Contains(argServer, SchemeSep)
              => server = TcpScheme \o argServer
        /\ Contains(argServer, SchemeSep) => server = argServer
        /\ Normalize(server) = server

\* C17 amended: an address that starts with ':' gets 127.0.0.1 prepended,
\* also when it contains "://"; an address without "://" gets tcp://
\* prepended; an address that contains "://" and does not start with ':' is
\* kept as given; normalizing the result changes nothing.
C17_AddressInferenceColonFirst ==
    Normalized =>
        /\ StartsWithColon(argServer) /\ ~Contains(argServer, SchemeSep)
              => server = TcpScheme \o LocalHost \o argServer
        /\ ~StartsWithColon(argServer) /\ ~Contains(argServer, SchemeSep)
              => server = TcpScheme \o argServer
        /\ StartsWithColon(argServer) /\ Contains(argServer, SchemeSep)
              => server = LocalHost \o argServer
        /\ ~StartsWithColon(argServer) /\ Contains(argServer, SchemeSep)
              => server = argServer
        /\ Normalize(server) = server

\* C17 witness: the address "://h" has been normalized to "127.0.0.1://h".
C17_ColonAndSchemeSep ==
    /\ Normalized
    /\ argServer = <<":", "/", "/", "h">>
    /\ server = LocalHost \o argServer

\* the field a setter is for
OwnField(op) ==
    IF op = "SetConnectTimeout" THEN "connectTimeout"
    ELSE IF op = "SetAutoReconnectRule" THEN "autoReconnectRule"
    ELSE IF op = "SetTLS" THEN "tc"
    ELSE IF op = "SetOnConnectHandler" THEN "onConnectHandler"
    ELSE "onDisconnectHandler"

\* the latest setter call had an argument the setter does not accept
ArgumentRefused ==
    \/ lastCall.op = "SetConnectTimeout" /\ lastCall.arg.timeout <= 0
    \/ lastCall.op = "SetAutoReconnectRule" /\ lastCall.arg = Nil
    \/ lastCall.op = "SetOnConnectHandler" /\ lastCall.arg.handler = "nil"
    \/ lastCall.op = "SetOnDisconnectHandler" /\ lastCall.arg.handler = "nil"

\* C24: after a setter call the option is the receiver, every field but the
\* setter's own has the value it had before the call, and with an argument
\* the setter does not accept every field has.
C24_SetterFrame ==
    lastCall.op # "none"
        => /\ lastCall.ret = "o"
           /\ optPc = "built"
           /\ \A f \in DOMAIN option \ {OwnField(lastCall.op)} :
                 option[f] = prev[f]
           /\ ArgumentRefused => option = prev

\* C24 witness: SetOnConnectHandler(nil) was called on an option that held a
\* custom handler, and the option is as before.
C24_NilHandlerIgnored ==
    /\ lastCall.op = "SetOnConnectHandler" /\ lastCall.arg.handler = "nil"
    /\ prev.onConnectHandler = "custom"
    /\ option = prev

(***************************************************************************)
(* Claims about the link session                                           *)
(***************************************************************************)
\* C18: flow control.  At most k I-frames are sent and unacknowledged, the
\* count being the distance from ackSeq to sendSeq; a request made below k
\* put its frame on the wire; a request made at k put nothing on the wire,
\* and nothing goes to the wire while it is blocked: its frame went only
\* after the count was below k.
C18_WindowNeverExceeded ==
    /\ unackedCount <= k
    /\ unackedCount = (sendSeq - ackSeq) % 32768
    /\ lastSend.res = "sent" => lastSend.unacked < k
    /\ lastSend.res = "blocked" => lastSend.unacked = k
    /\ pending => lastSend.res = "blocked" /\ sendSeq = lastSend.seq

\* C18 witness: a request was blocked at the full window, an acknowledgment
\* lowered the count and the frame has gone to the wire.
C18_BlockedThenSent ==
    /\ lastSend.res = "sent" /\ lastSend.unacked < k
    /\ lastAck.res = "accepted" /\ lastAck.n # lastAck.ackSeq
    /\ (lastAck.sendSeq - lastAck.ackSeq) % 32768 = k
    /\ lastSend.seq = lastAck.sendSeq

\* n lies in the range from a to s of the 15-bit circle, both ends included
Within(a, n, s) ==
    IF a <= s THEN a <= n /\ n <= s ELSE n >= a \/ n <= s

\* C19: sequence arithmetic is modulo 2^15.  The counters stay below 2^15;
\* the counter after a frame numbered 2^15 - 1 is 0; an acknowledgment was
\* accepted only if it lay between ackSeq and sendSeq in wraparound-aware
\* order, and one outside was rejected and has reset the connection, also
\* when ackSeq is above sendSeq because the window straddles the wrap.
C19_SequenceArithmetic ==
    /\ sendSeq \in 0..32767 /\ ackSeq \in 0..32767 /\ recvSeq \in 0..32767
    /\ lastSend.res = "sent"
          => sendSeq = IF lastSend.seq = 32767 THEN 0 ELSE lastSend.seq + 1
    /\ lastAck.res = "accepted"
          => Within(lastAck.ackSeq, lastAck.n, lastAck.sendSeq)
    /\ lastAck.res = "rejected"
          => /\ ~Within(lastAck.ackSeq, lastAck.n, lastAck.sendSeq)
             /\ lsmState = "Disconnected"

\* C19 witness: with the window straddling the wrap (ackSeq above sendSeq),
\* an acknowledgment outside it has been rejected and the link is reset.
C19_RejectedAcrossWrap ==
    /\ lastAck.res = "rejected" /\ lastAck.ackSeq > lastAck.sendSeq
    /\ lsmState = "Disconnected"

(***************************************************************************)
(* Claims about the dispatcher                                             *)
(***************************************************************************)
\* the call number i went to the slot of its type: one of the seven command
\* slots for 100..106, the catch-all for every other type
RightSlot(i) ==
    LET c == invoked[i]
    IN  /\ c.typeID = 100 => c.handler = "GeneralInterrogationHandler"
        /\ c.typeID = 101 => c.handler = "CounterInterrogationHandler"
        /\ c.typeID = 102 => c.handler = "ReadCommandHandler"
        /\ c.typeID = 103 => c.handler = "ClockSynchronizationHandler"
        /\ c.typeID = 104 => c.handler = "TestCommandHandler"
        /\ c.typeID = 105 => c.handler = "ResetProcessCommandHandler"
        /\ c.typeID = 106 => c.handler = "DelayAcquisitionCommandHandler"
        /\ c.typeID \notin 100..106 => c.handler = "APDUHandler"

\* C21: exactly one handler call per decoded ASDU, in arrival order: the
\* calls made are, one for one and in order, the ASDUs that arrived and are
\* no longer waiting; each call went to the slot of its type; a handler
\* error leaves the connection open, so the ASDUs behind it are dispatched.
C21_OneHandlerPerAsduInOrder ==
    /\ Len(invoked) + Len(inbox) = Len(arrived)
    /\ \A i \in 1..Len(invoked) :
          /\ invoked[i].typeID = arrived[i]
          /\ invoked[i].handler \in Handlers
          /\ RightSlot(i)
    /\ \A i \in 1..Len(inbox) : inbox[i] = arrived[Len(invoked) + i]
    /\ dispPc = "open"

\* C21 witness: a command handler returned an error and the next ASDU, of a
\* type without a slot, went to the catch-all handler.
C21_DispatchedAfterHandlerError ==
    /\ Len(invoked) = 2
    /\ invoked[1].typeID = 100 /\ invoked[1].err = "error"
    /\ invoked[2].typeID = 107 /\ invoked[2].handler = "APDUHandler"

====
